---------------------------- MODULE Spec2Model ----------------------------
(***************************************************************************)
(* Unitime (src/lib.rs): one stored SystemTime and the elapsed-time        *)
(* queries that compare it with SystemTime::now().                         *)
(*                                                                         *)
(* A SystemTime and a Duration are counted in whole milliseconds since     *)
(* UNIX_EPOCH (the resolution of Duration::from_millis, the only way a     *)
(* caller supplies an instant).  An f64 is a record: k = "fin" is the      *)
(* finite value (-1)^neg * (int + frac/4); k = "2^64" and k = "1e20" are   *)
(* two finite values at and above the range of u64; k = "inf" and          *)
(* k = "nan" are the non-finite values.                                    *)
(***************************************************************************)
EXTENDS Integers, Sequences, FiniteSets, TLC

VARIABLES
    now,      \* the system clock, as SystemTime::now() would read it
    time,     \* Unitime.time of the instance
    id,       \* which instance `time` belongs to (new() makes the next one)
    op,       \* the call that returned last: [name, arg]
    ret,      \* what that call returned (or that it panicked)
    call,     \* get_elapsed_str in progress: its position and its locals
    seenMil,  \* history: epochMil as last read since the instant was set
    seenSec   \* history: epochSec as last read since the instant was set

vars == <<now, time, id, op, ret, call, seenMil, seenSec>>

---------------------------------------------------------------------------
(* Bounds of the model *)

\* the clock reading at which the first instance is constructed
Now0 == 5000
\* the largest elapsed time the clock reaches, in hours
MaxElapsedHours == 100
\* how many instances new() constructs in one behaviour
MaxInstances == 2

---------------------------------------------------------------------------
(* Constants of the program *)

UNIX_EPOCH == 0
MILLIS_PER_SEC == 1000
SECS_PER_HOUR == 3600
SECS_PER_MINUTE == 60
\* u64::MAX.  TLC's integers are 32 bits wide, so the model's u64 ends at the
\* largest integer TLC holds; every clock reading of the model is far below it.
U64_MAX == 2147483647

---------------------------------------------------------------------------
(* f64 values *)

Fin(i) == [k |-> "fin", neg |-> FALSE, int |-> i, frac |-> 0]
FinQ(i, q) == [k |-> "fin", neg |-> FALSE, int |-> i, frac |-> q]
Neg(x) == [x EXCEPT !.neg = TRUE]
F64_2p64 == [k |-> "2^64", neg |-> FALSE, int |-> 0, frac |-> 0]
F64_1e20 == [k |-> "1e20", neg |-> FALSE, int |-> 0, frac |-> 0]
F64_INF == [k |-> "inf", neg |-> FALSE, int |-> 0, frac |-> 0]
F64_NAN == [k |-> "nan", neg |-> FALSE, int |-> 0, frac |-> 0]
NoArg == [k |-> "none", neg |-> FALSE, int |-> 0, frac |-> 0]

\* faulty variant: the cast rounds to the nearest integer (mil.round() as u64)
F64AsU64_rounding(x) ==
    CASE x.k = "nan" -> 0
      [] x.neg -> 0
      [] x.k = "fin" -> x.int + (IF x.frac >= 2 THEN 1 ELSE 0)
      [] OTHER -> U64_MAX

\* `mil as u64`: truncates toward zero, saturates at the ends of u64, NaN is 0
F64AsU64(x) ==
    CASE x.k = "nan" -> 0
      [] x.neg -> 0
      [] x.k = "fin" -> x.int
      [] OTHER -> U64_MAX

\* `n as f64` of an unsigned integer: exact below 2^53; u64::MAX rounds to 2^64
UIntAsF64(n) == IF n = U64_MAX THEN F64_2p64 ELSE Fin(n)

---------------------------------------------------------------------------
(* Duration and SystemTime *)

from_millis(m) == m
from_secs(s) == s * MILLIS_PER_SEC
as_secs(d) == d \div MILLIS_PER_SEC
as_millis(d) == d

\* faulty variant: the difference saturates at zero instead of being an Err
duration_since_clamped(later, earlier) ==
    IF later < earlier
    THEN [ok |-> TRUE, d |-> 0]
    ELSE [ok |-> TRUE, d |-> later - earlier]

\* later.duration_since(earlier): Err when earlier is after later
duration_since(later, earlier) ==
    IF later < earlier
    THEN [ok |-> FALSE, d |-> earlier - later]
    ELSE [ok |-> TRUE, d |-> later - earlier]

Panic == [kind |-> "panic"]

\* `n as i32` of a u64: every integer the model holds is below 2^31
AsI32(n) == n


\* f64 addition and multiplication of finite non-negative values, in quarters
\* (exact: every operand of the program is an integer below 2^53)
F64Add(a, b) ==
    LET q == (a.int * 4 + a.frac) + (b.int * 4 + b.frac)
    IN  FinQ(q \div 4, q % 4)

F64Mul(a, b) ==
    LET q == (a.int * 4 + a.frac) * (b.int * 4 + b.frac)
    IN  FinQ(q \div 16, (q % 16) \div 4)

I32(n) == [kind |-> "i32", v |-> n]
F64(x) == [kind |-> "f64", v |-> x]
Str(s) == [kind |-> "String", v |-> s]
UnitimeOf(t) == [kind |-> "Unitime", time |-> t]

---------------------------------------------------------------------------
(* The methods of Unitime, as functions of self.time and of the clock     *)
(* reading that SystemTime::now() returns inside the call                 *)

new(clock) == UnitimeOf(clock)

\* the new value of self.time; the returned Unitime is a copy of it
from_epoch_mil(mil) == UNIX_EPOCH + from_millis(F64AsU64(mil))

get_elapsed_hours(self, clock) ==
    LET r == duration_since(clock, self)
    IN  IF ~r.ok THEN Panic
        ELSE LET hours == as_secs(r.d) \div SECS_PER_HOUR
             IN  I32(AsI32(hours))

\* faulty variant: the whole hours are not taken off before the minutes are counted
get_elapsed_minutes_of_total(self, clock) ==
    LET r == duration_since(clock, self)
    IN  IF ~r.ok THEN Panic
        ELSE I32(AsI32(as_secs(r.d) \div SECS_PER_MINUTE))

get_elapsed_minutes(self, clock) ==
    LET r == duration_since(clock, self)
    IN  IF ~r.ok THEN Panic
        ELSE LET hours == as_secs(r.d) \div SECS_PER_HOUR
                 elapsed1 == r.d - from_secs(hours * SECS_PER_HOUR)
                 minutes == as_secs(elapsed1) \div SECS_PER_MINUTE
             IN  I32(AsI32(minutes))

\* faulty variant: the whole minutes are not taken off before the seconds are read
get_elapsed_seconds_of_hour(self, clock) ==
    LET r == duration_since(clock, self)
    IN  IF ~r.ok THEN Panic
        ELSE LET hours == as_secs(r.d) \div SECS_PER_HOUR
                 elapsed1 == r.d - from_secs(hours * SECS_PER_HOUR)
             IN  I32(AsI32(as_secs(elapsed1)))

get_elapsed_seconds(self, clock) ==
    LET r == duration_since(clock, self)
    IN  IF ~r.ok THEN Panic
        ELSE LET hours == as_secs(r.d) \div SECS_PER_HOUR
                 elapsed1 == r.d - from_secs(hours * SECS_PER_HOUR)
                 minutes == as_secs(elapsed1) \div SECS_PER_MINUTE
                 elapsed2 == elapsed1 - from_secs(minutes * SECS_PER_MINUTE)
             IN  I32(AsI32(as_secs(elapsed2)))

get_epoch_mil(self) ==
    LET r == duration_since(self, UNIX_EPOCH)
    IN  IF ~r.ok THEN Panic ELSE F64(UIntAsF64(as_millis(r.d)))

\* as_secs_f32: the f32 nearest to secs + millis/1000, named by that sum
get_epoch_sec(self) ==
    LET r == duration_since(self, UNIX_EPOCH)
    IN  IF ~r.ok THEN Panic
        ELSE [kind |-> "f32", secs |-> as_secs(r.d),
              millis |-> r.d % MILLIS_PER_SEC]

\* faulty variant: the total is the elapsed time with its fraction (as_secs_f64)
get_total_elapsed_sec_fractional(self, clock) ==
    LET r == duration_since(clock, self)
    IN  IF ~r.ok THEN Panic
        ELSE F64(FinQ(as_secs(r.d), ((r.d % MILLIS_PER_SEC) * 4) \div MILLIS_PER_SEC))

get_total_elapsed_sec(self, clock) ==
    LET r == duration_since(clock, self)
    IN  IF ~r.ok THEN Panic
        ELSE LET hours == as_secs(r.d) \div SECS_PER_HOUR
                 elapsed1 == r.d - from_secs(hours * SECS_PER_HOUR)
                 minutes == as_secs(elapsed1) \div SECS_PER_MINUTE
                 elapsed2 == elapsed1 - from_secs(minutes * SECS_PER_MINUTE)
             IN  F64(F64Add(F64Add(UIntAsF64(as_secs(elapsed2)),
                                   F64Mul(UIntAsF64(minutes), Fin(60))),
                            F64Mul(UIntAsF64(hours), Fin(3600))))

\* faulty variant: the hours are left out of the total
get_total_elapsed_min_no_hours(self, clock) ==
    LET r == duration_since(clock, self)
    IN  IF ~r.ok THEN Panic
        ELSE LET hours == as_secs(r.d) \div SECS_PER_HOUR
                 elapsed1 == r.d - from_secs(hours * SECS_PER_HOUR)
                 minutes == as_secs(elapsed1) \div SECS_PER_MINUTE
             IN  F64(UIntAsF64(minutes))

get_total_elapsed_min(self, clock) ==
    LET r == duration_since(clock, self)
    IN  IF ~r.ok THEN Panic
        ELSE LET hours == as_secs(r.d) \div SECS_PER_HOUR
                 elapsed1 == r.d - from_secs(hours * SECS_PER_HOUR)
                 minutes == as_secs(elapsed1) \div SECS_PER_MINUTE
             IN  F64(UIntAsF64(hours * 60 + minutes))

\* i32::to_string, as a sequence of characters
DigitChar == <<"0", "1", "2", "3", "4", "5", "6", "7", "8", "9">>

RECURSIVE Digits(_)
Digits(n) ==
    IF n < 10 THEN <<DigitChar[n + 1]>>
    ELSE Digits(n \div 10) \o <<DigitChar[(n % 10) + 1]>>

to_string(n) == IF n < 0 THEN <<"-">> \o Digits(0 - n) ELSE Digits(n)

\* faulty variant: the seconds are not padded
format_elapsed_unpadded_seconds(hours, minutes, seconds) ==
    LET r1 == IF hours # 0
              THEN (IF hours < 10 THEN <<"0">> ELSE <<>>)
                   \o to_string(hours) \o <<":">>
              ELSE <<>>
        r2 == r1 \o (IF minutes < 10 THEN <<"0">> ELSE <<>>)
                 \o to_string(minutes) \o <<":">>
    IN  r2 \o to_string(seconds)

\* lines 150-171 of get_elapsed_str: the string built from the three values
format_elapsed(hours, minutes, seconds) ==
    LET r1 == IF hours # 0
              THEN (IF hours < 10 THEN <<"0">> ELSE <<>>)
                   \o to_string(hours) \o <<":">>
              ELSE <<>>
        r2 == r1 \o (IF minutes < 10 THEN <<"0">> ELSE <<>>)
                 \o to_string(minutes) \o <<":">>
        r3 == r2 \o (IF seconds < 10 THEN <<"0">> ELSE <<>>)
                 \o to_string(seconds)
    IN  r3

---------------------------------------------------------------------------
(* Inputs *)

MILLIS_PER_HOUR == SECS_PER_HOUR * MILLIS_PER_SEC

\* how far the clock is read past Now0, in milliseconds
ElapsedCases ==
    {1, 999, 1000, 9000, 45000, 59999, 60000, 3599999, 3600000, 3725000,
     10 * MILLIS_PER_HOUR, MaxElapsedHours * MILLIS_PER_HOUR}

ClockReadings == {Now0 + e : e \in ElapsedCases}

\* an instant after every clock reading
FarFuture == Now0 + (MaxElapsedHours + 1) * MILLIS_PER_HOUR

\* the arguments from_epoch_mil is called with
MilInputs ==
    {Fin(0), FinQ(0, 3), Fin(Now0), FinQ(Now0, 2), Fin(Now0 + 60000),
     Fin(FarFuture), Neg(Fin(1)), Neg(FinQ(0, 2)), F64_2p64, F64_1e20,
     F64_INF, Neg(F64_INF), F64_NAN}

NoRet == [kind |-> "none"]
CallIdle == [pc |-> "idle", t0 |-> 0, hours |-> 0, minutes |-> 0, seconds |-> 0]
Op(name, arg) == [name |-> name, arg |-> arg]

---------------------------------------------------------------------------
(* The state machine *)

Init ==
    /\ now = Now0
    /\ time = new(Now0).time
    /\ id = 1
    /\ op = Op("new", NoArg)
    /\ ret = new(Now0)
    /\ call = CallIdle
    /\ seenMil = NoRet
    /\ seenSec = NoRet

\* the system clock moves forward between two calls, or between two of the
\* clock readings inside get_elapsed_str
Tick ==
    /\ \E c \in ClockReadings : c > now /\ now' = c
    /\ op' = Op("tick", NoArg)
    /\ ret' = NoRet
    /\ call' = IF call.pc = "idle" THEN CallIdle ELSE call
    /\ UNCHANGED <<time, id, seenMil, seenSec>>

\* new Unitime(): the next instance, holding the clock reading
New ==
    /\ call.pc = "idle"
    /\ id < MaxInstances
    /\ id' = id + 1
    /\ time' = new(now).time
    /\ op' = Op("new", NoArg)
    /\ ret' = new(now)
    /\ call' = CallIdle
    /\ seenMil' = NoRet
    /\ seenSec' = NoRet
    /\ UNCHANGED now

FromEpochMil ==
    /\ call.pc = "idle"
    /\ \E mil \in MilInputs :
          /\ time' = from_epoch_mil(mil)
          /\ op' = Op("from_epoch_mil", mil)
    /\ ret' = UnitimeOf(time')
    /\ call' = CallIdle
    /\ seenMil' = NoRet
    /\ seenSec' = NoRet
    /\ UNCHANGED <<now, id>>

\* a call of a &self method that reads the clock once
Query(name, result) ==
    /\ call.pc = "idle"
    /\ op' = Op(name, NoArg)
    /\ ret' = result
    /\ call' = CallIdle
    /\ UNCHANGED <<now, time, id, seenMil, seenSec>>

\* faulty variant: the query stores the clock reading it took
GetElapsedHours_storing ==
    /\ call.pc = "idle"
    /\ op' = Op("get_elapsed_hours", NoArg)
    /\ ret' = get_elapsed_hours(time, now)
    /\ time' = now
    /\ call' = CallIdle
    /\ UNCHANGED <<now, id, seenMil, seenSec>>

GetElapsedHours == Query("get_elapsed_hours", get_elapsed_hours(time, now))
GetElapsedMinutes == Query("get_elapsed_minutes", get_elapsed_minutes(time, now))
GetElapsedSeconds == Query("get_elapsed_seconds", get_elapsed_seconds(time, now))
GetTotalElapsedSec == Query("get_total_elapsed_sec", get_total_elapsed_sec(time, now))
GetTotalElapsedMin == Query("get_total_elapsed_min", get_total_elapsed_min(time, now))

GetEpochMil ==
    /\ call.pc = "idle"
    /\ op' = Op("get_epoch_mil", NoArg)
    /\ ret' = get_epoch_mil(time)
    /\ seenMil' = ret'
    /\ call' = CallIdle
    /\ UNCHANGED <<now, time, id, seenSec>>

GetEpochSec ==
    /\ call.pc = "idle"
    /\ op' = Op("get_epoch_sec", NoArg)
    /\ ret' = get_epoch_sec(time)
    /\ seenSec' = ret'
    /\ call' = CallIdle
    /\ UNCHANGED <<now, time, id, seenMil>>

\* get_elapsed_str, line 146: the first clock reading
StrHours ==
    /\ call.pc = "idle"
    /\ LET r == get_elapsed_hours(time, now)
       IN  IF r.kind = "panic"
           THEN /\ op' = Op("get_elapsed_str", NoArg)
                /\ ret' = Panic
                /\ call' = CallIdle
           ELSE /\ op' = Op("in get_elapsed_str", NoArg)
                /\ ret' = NoRet
                /\ call' = [CallIdle EXCEPT !.pc = "minutes", !.t0 = now,
                                            !.hours = r.v]
    /\ UNCHANGED <<now, time, id, seenMil, seenSec>>

\* get_elapsed_str, line 147: the second clock reading
StrMinutes ==
    /\ call.pc = "minutes"
    /\ LET r == get_elapsed_minutes(time, now)
       IN  IF r.kind = "panic"
           THEN /\ op' = Op("get_elapsed_str", NoArg)
                /\ ret' = Panic
                /\ call' = CallIdle
           ELSE /\ op' = Op("in get_elapsed_str", NoArg)
                /\ ret' = NoRet
                /\ call' = [call EXCEPT !.pc = "seconds", !.minutes = r.v]
    /\ UNCHANGED <<now, time, id, seenMil, seenSec>>

\* get_elapsed_str, lines 148-171: the third clock reading and the string
StrSeconds ==
    /\ call.pc = "seconds"
    /\ op' = Op("get_elapsed_str", NoArg)
    /\ LET r == get_elapsed_seconds(time, now)
       IN  IF r.kind = "panic"
           THEN /\ ret' = Panic
                /\ call' = CallIdle
           ELSE /\ ret' = Str(format_elapsed(call.hours, call.minutes, r.v))
                /\ call' = [call EXCEPT !.pc = "idle", !.seconds = r.v]
    /\ UNCHANGED <<now, time, id, seenMil, seenSec>>

Next ==
    \/ Tick
    \/ New
    \/ FromEpochMil
    \/ GetElapsedHours
    \/ GetElapsedMinutes
    \/ GetElapsedSeconds
    \/ GetEpochMil
    \/ GetEpochSec
    \/ GetTotalElapsedSec
    \/ GetTotalElapsedMin
    \/ StrHours
    \/ StrMinutes
    \/ StrSeconds

Spec == Init /\ [][Next]_vars

---------------------------------------------------------------------------
(* What the claims are stated with *)

\* the stored instant is later than the clock reading
Skewed == time > now

\* the whole seconds of (now - stored instant)
T == (now - time) \div 1000

Returned(name) == op.name = name /\ ret.kind # "panic"

\* a value that is finite and not negative
NonNegative(x) == x.k \in {"fin", "2^64", "1e20"} /\ ~x.neg

\* floor of a non-negative finite f64
Floor(x) == IF x.k = "fin" THEN Fin(x.int) ELSE x

\* the fields of a string, the text between its colons
RECURSIVE Fields(_)
Fields(s) ==
    LET c == {i \in 1..Len(s) : s[i] = ":"}
    IN  IF c = {} THEN <<s>>
        ELSE LET i == CHOOSE j \in c : \A k \in c : j <= k
             IN  <<SubSeq(s, 1, i - 1)>> \o Fields(SubSeq(s, i + 1, Len(s)))

IsDigits(f) ==
    /\ Len(f) > 0
    /\ \A i \in 1..Len(f) : \E d \in 0..9 : DigitChar[d + 1] = f[i]

DigitVal(c) == CHOOSE d \in 0..9 : DigitChar[d + 1] = c

\* the number a field of digits reads as
RECURSIVE NumOf(_)
NumOf(f) ==
    IF Len(f) = 0 THEN 0
    ELSE NumOf(SubSeq(f, 1, Len(f) - 1)) * 10 + DigitVal(f[Len(f)])

\* a field prints n: two digits with a leading zero below 10, else n in decimal
Prints(f, n) ==
    /\ IsDigits(f)
    /\ NumOf(f) = n
    /\ IF n <= 9 THEN Len(f) = 2 /\ f[1] = "0"
       ELSE f[1] # "0" /\ Len(f) = (IF n <= 99 THEN 2 ELSE IF n <= 999 THEN 3 ELSE 4)

---------------------------------------------------------------------------
(* C1 *)

\* C1, as claimed: for every non-negative value v, after from_epoch_mil(v) the
\* epochMil getter returns floor(v) on the receiver and on the returned Unitime.
C1_AsClaimed ==
    (op.name = "from_epoch_mil" /\ NonNegative(op.arg))
        => /\ get_epoch_mil(time) = F64(Floor(op.arg))
           /\ ret.kind = "Unitime"
           /\ get_epoch_mil(ret.time) = F64(Floor(op.arg))

\* C1, amended: for every value v with 0 <= v <= 2^64, after from_epoch_mil(v)
\* the epochMil getter returns floor(v) on the receiver and on the returned
\* Unitime, whatever instant was stored before.
C1_EpochMilIsFloor ==
    (op.name = "from_epoch_mil" /\ NonNegative(op.arg) /\ op.arg.k # "1e20")
        => /\ get_epoch_mil(time) = F64(Floor(op.arg))
           /\ ret.kind = "Unitime"
           /\ get_epoch_mil(ret.time) = F64(Floor(op.arg))

C1_Witness ==
    /\ op.name = "from_epoch_mil"
    /\ op.arg = FinQ(Now0, 2)
    /\ id = MaxInstances
    /\ now > Now0
    /\ time = Now0

---------------------------------------------------------------------------
(* C2 *)

\* C2: when the stored instant is not later than the clock reading and T is the
\* whole seconds elapsed, get_elapsed_hours returns floor(T / 3600),
\* get_elapsed_minutes returns floor((T mod 3600) / 60) and get_elapsed_seconds
\* returns T mod 60; T = 3725 gives 1, 2 and 5.
C2_Decomposition ==
    ~Skewed =>
        /\ op.name = "get_elapsed_hours" => ret = I32(T \div 3600)
        /\ op.name = "get_elapsed_minutes" => ret = I32((T % 3600) \div 60)
        /\ op.name = "get_elapsed_seconds" => ret = I32(T % 60)
        /\ T = 3725 =>
              /\ op.name = "get_elapsed_hours" => ret.v = 1
              /\ op.name = "get_elapsed_minutes" => ret.v = 2
              /\ op.name = "get_elapsed_seconds" => ret.v = 5

C2_Witness ==
    /\ op.name = "get_elapsed_minutes"
    /\ now - time = 3725000
    /\ ret = I32(2)

---------------------------------------------------------------------------
(* C3 *)

\* C3: at one clock reading not earlier than the stored instant,
\* get_total_elapsed_sec returns exactly get_elapsed_hours * 3600 +
\* get_elapsed_minutes * 60 + get_elapsed_seconds, a value with no fraction.
C3_TotalSeconds ==
    (op.name = "get_total_elapsed_sec" /\ ~Skewed) =>
        /\ ret.kind = "f64"
        /\ ret.v.k = "fin" /\ ~ret.v.neg
        /\ ret.v.frac = 0
        /\ ret.v.int = get_elapsed_hours(time, now).v * 3600
                         + get_elapsed_minutes(time, now).v * 60
                         + get_elapsed_seconds(time, now).v

\* more than an hour elapsed, with minutes, seconds and a fraction of a second
C3_Witness ==
    /\ op.name = "get_total_elapsed_sec"
    /\ ret.kind = "f64"
    /\ now - time = 3724999
    /\ ret.v.int = 3724

---------------------------------------------------------------------------
(* C4 *)

\* C4: at one clock reading not earlier than the stored instant,
\* get_total_elapsed_min returns get_elapsed_hours * 60 + get_elapsed_minutes,
\* the whole minutes of the elapsed time.
C4_TotalMinutes ==
    (op.name = "get_total_elapsed_min" /\ ~Skewed) =>
        /\ ret.kind = "f64"
        /\ ret.v.k = "fin" /\ ~ret.v.neg
        /\ ret.v.frac = 0
        /\ ret.v.int = get_elapsed_hours(time, now).v * 60
                         + get_elapsed_minutes(time, now).v
        /\ ret.v.int = T \div 60

C4_Witness ==
    /\ op.name = "get_total_elapsed_min"
    /\ ret.kind = "f64"
    /\ now - time = 3725000
    /\ ret.v.int = 62

---------------------------------------------------------------------------
(* C5 *)

\* C5: in every reachable state whose stored instant is not later than the
\* clock reading, get_elapsed_minutes and get_elapsed_seconds return a value
\* in 0..59 and get_elapsed_hours returns a value >= 0.
C5_Ranges ==
    ~Skewed =>
        /\ get_elapsed_hours(time, now).kind = "i32"
        /\ get_elapsed_hours(time, now).v >= 0
        /\ get_elapsed_minutes(time, now).kind = "i32"
        /\ get_elapsed_minutes(time, now).v \in 0..59
        /\ get_elapsed_seconds(time, now).kind = "i32"
        /\ get_elapsed_seconds(time, now).v \in 0..59
        /\ op.name \in {"get_elapsed_minutes", "get_elapsed_seconds"}
              => ret.kind = "i32" /\ ret.v \in 0..59
        /\ op.name = "get_elapsed_hours" => ret.kind = "i32" /\ ret.v >= 0

\* 59 minutes 59.999 seconds elapsed: both fields at the top of their range
C5_Witness ==
    /\ op.name = "get_elapsed_seconds"
    /\ now - time = 3599999
    /\ ret = I32(59)
    /\ get_elapsed_minutes(time, now) = I32(59)

---------------------------------------------------------------------------
(* C6 *)

\* the string a completed get_elapsed_str returned shows h, m and s
Shows(str, h, m, s) ==
    LET f == Fields(str)
    IN  IF h > 0
        THEN Len(f) = 3 /\ Prints(f[1], h) /\ Prints(f[2], m) /\ Prints(f[3], s)
        ELSE Len(f) = 2 /\ Prints(f[1], m) /\ Prints(f[2], s)

\* C6: with h, m and s the values get_elapsed_str read, it returns "HH:MM:SS"
\* when h > 0 and "MM:SS", with no hour field and no leading colon, when
\* h = 0; each field has a leading zero when its value is in 0..9 and is the
\* decimal value otherwise.  When the clock stands still during the call, h, m
\* and s are the hours, minutes and seconds of the elapsed time: 45 s gives
\* "00:45", 9 s gives "00:09" and 3725 s gives "01:02:05".
C6_Format ==
    Returned("get_elapsed_str") =>
        /\ ret.kind = "String"
        /\ Shows(ret.v, call.hours, call.minutes, call.seconds)
        /\ call.t0 = now =>
              /\ call.hours = T \div 3600
              /\ call.minutes = (T % 3600) \div 60
              /\ call.seconds = T % 60
              /\ T = 45 => ret.v = <<"0", "0", ":", "4", "5">>
              /\ T = 9 => ret.v = <<"0", "0", ":", "0", "9">>
              /\ T = 3725 => ret.v = <<"0", "1", ":", "0", "2", ":", "0", "5">>

C6_Witness ==
    /\ Returned("get_elapsed_str")
    /\ call.t0 = now
    /\ now - time = 3725000
    /\ ret.v = <<"0", "1", ":", "0", "2", ":", "0", "5">>

---------------------------------------------------------------------------
(* C7 *)

ElapsedOps ==
    {"get_elapsed_hours", "get_elapsed_minutes", "get_elapsed_seconds",
     "get_total_elapsed_sec", "get_total_elapsed_min", "get_elapsed_str"}

\* C7: whenever the stored instant is later than the clock reading, each of
\* get_elapsed_hours, get_elapsed_minutes, get_elapsed_seconds,
\* get_total_elapsed_sec, get_total_elapsed_min and get_elapsed_str fails (the
\* unwrap of the Err panics) and returns no value, clamped or otherwise.
C7_SkewFails ==
    Skewed =>
        /\ op.name \in ElapsedOps => ret = Panic
        /\ call.pc = "idle"
        /\ get_elapsed_hours(time, now) = Panic
        /\ get_elapsed_minutes(time, now) = Panic
        /\ get_elapsed_seconds(time, now) = Panic
        /\ get_total_elapsed_sec(time, now) = Panic
        /\ get_total_elapsed_min(time, now) = Panic

\* the instant was set one minute ahead of the clock and the string was asked
C7_Witness ==
    /\ op.name = "get_elapsed_str"
    /\ time = Now0 + 60000
    /\ now < time
    /\ ret = Panic

---------------------------------------------------------------------------
(* C8 *)

Invalid(x) == x.k \in {"inf", "nan"} \/ x.neg

\* C8: from_epoch_mil called with a negative or non-finite value fails with an
\* InvalidInput error and stores no instant derived from the value.
C8_InvalidInputRejected ==
    (op.name = "from_epoch_mil" /\ Invalid(op.arg)) => ret.kind = "InvalidInput"

---------------------------------------------------------------------------
(* C9 *)

\* C9: on one instance only from_epoch_mil changes the stored instant, whatever
\* queries and clock advances happen; and a read of epochMil (of epochSec)
\* returns what the read before it returned when no from_epoch_mil came between.
C9_OnlySetChanges ==
    [][ /\ (id' = id /\ time' # time) => op'.name = "from_epoch_mil"
        /\ (op'.name = "get_epoch_mil" /\ seenMil.kind # "none") => ret' = seenMil
        /\ (op'.name = "get_epoch_sec" /\ seenSec.kind # "none") => ret' = seenSec
      ]_vars

\* the instant was set, both getters were read, the clock moved on by more
\* than an hour, and epochMil is read again
C9_Witness ==
    /\ op.name = "get_epoch_mil"
    /\ seenSec.kind = "f32"
    /\ seenMil = F64(Fin(Now0 + 60000))
    /\ now = Now0 + 3600000

---------------------------------------------------------------------------
(* C10 *)

\* C10: the fields get_elapsed_str prints are the hours, minutes and seconds of
\* one elapsed-seconds value, between the elapsed time when the call started
\* and the elapsed time when it returned, also when the clock advances during
\* the call.
C10_OneReading ==
    Returned("get_elapsed_str") =>
        LET f == Fields(ret.v)
            h == IF Len(f) = 3 THEN NumOf(f[1]) ELSE 0
            m == NumOf(f[Len(f) - 1])
            s == NumOf(f[Len(f)])
            shown == h * 3600 + m * 60 + s
        IN  /\ m <= 59 /\ s <= 59
            /\ (call.t0 - time) \div 1000 <= shown
            /\ shown <= (now - time) \div 1000

=============================================================================
